---- MODULE Spec2Model ----
(***************************************************************************)
(* Celerity: the query-resolution engine (Search.parseQuery and helpers), *)
(* the shortcut store (COMMANDS, saveCommands/loadCommands and the        *)
(* settings modal's create/edit/delete/reset/import/export handlers) and  *)
(* the suggestion provider (Search.onInput with the JSONP autocomplete).  *)
(*                                                                         *)
(* JavaScript strings are TLA+ strings; TLC evaluates Len, \o and SubSeq  *)
(* on them, so every string function below works character by character   *)
(* as the JavaScript does.                                                 *)
(***************************************************************************)
EXTENDS Integers, Sequences, FiniteSets, TLC

(***************************************************************************)
(* Bounds of the model.                                                    *)
(***************************************************************************)
\* longest typed input enumerated over InputAlphabet
MaxInputLen == 3
\* depth of nested parseQuery calls after which the engine's call stack is
\* taken to be exhausted (a RangeError); longer than any acyclic chain of
\* `command` redirections in a store of the model
StackLimit == 4

\* the fetches of suggestions a run follows
MaxFetches == 2

(***************************************************************************)
(* Strings.                                                                *)
(***************************************************************************)
\* the JavaScript value `undefined` in a string-typed slot
Undef == "<undefined>"

CharAt(s, i) == SubSeq(s, i, i)

\* s.slice(i - 1): the suffix starting at the 1-based position i
From(s, i) == SubSeq(s, i, Len(s))

StartsWith(s, p) == Len(p) <= Len(s) /\ SubSeq(s, 1, Len(p)) = p

\* !!x for a string-or-undefined x
Truthy(x) == x # Undef /\ x # ""

LowerLetters ==
  {"a","b","c","d","e","f","g","h","i","j","k","l","m",
   "n","o","p","q","r","s","t","u","v","w","x","y","z"}

UpperLetters ==
  {"A","B","C","D","E","F","G","H","I","J","K","L","M",
   "N","O","P","Q","R","S","T","U","V","W","X","Y","Z"}

Letters == LowerLetters \cup UpperLetters

Digits == {"0","1","2","3","4","5","6","7","8","9"}

\* the regex class [\w-]
WordOrDash == Letters \cup Digits \cup {"_", "-"}

\* the regex class \s (the members that can be typed into the model's inputs)
Whitespace == {" ", "\t", "\n"}

LowerOf ==
  [c \in UpperLetters |->
     CASE c = "A" -> "a" [] c = "B" -> "b" [] c = "C" -> "c" [] c = "D" -> "d"
       [] c = "E" -> "e" [] c = "F" -> "f" [] c = "G" -> "g" [] c = "H" -> "h"
       [] c = "I" -> "i" [] c = "J" -> "j" [] c = "K" -> "k" [] c = "L" -> "l"
       [] c = "M" -> "m" [] c = "N" -> "n" [] c = "O" -> "o" [] c = "P" -> "p"
       [] c = "Q" -> "q" [] c = "R" -> "r" [] c = "S" -> "s" [] c = "T" -> "t"
       [] c = "U" -> "u" [] c = "V" -> "v" [] c = "W" -> "w" [] c = "X" -> "x"
       [] c = "Y" -> "y" [] c = "Z" -> "z"]

RECURSIVE toLowerCase(_)
toLowerCase(s) ==
  IF s = "" THEN ""
  ELSE LET c == CharAt(s, 1)
       IN (IF c \in UpperLetters THEN LowerOf[c] ELSE c) \o toLowerCase(From(s, 2))

RECURSIVE TrimStart(_)
TrimStart(s) ==
  IF s # "" /\ CharAt(s, 1) \in Whitespace THEN TrimStart(From(s, 2)) ELSE s

RECURSIVE TrimEnd(_)
TrimEnd(s) ==
  IF s # "" /\ CharAt(s, Len(s)) \in Whitespace
  THEN TrimEnd(SubSeq(s, 1, Len(s) - 1))
  ELSE s

\* String.prototype.trim
Trim(s) == TrimEnd(TrimStart(s))

\* 1-based position of the first occurrence of p in s at or after i; 0 if none
RECURSIVE IndexFrom(_, _, _)
IndexFrom(s, p, i) ==
  IF i + Len(p) - 1 > Len(s) THEN 0
  ELSE IF SubSeq(s, i, i + Len(p) - 1) = p THEN i
  ELSE IndexFrom(s, p, i + 1)

IndexOf(s, p) == IndexFrom(s, p, 1)

\* length of the longest prefix of s made of characters of class C
RECURSIVE SpanLen(_, _)
SpanLen(s, C) ==
  IF s # "" /\ CharAt(s, 1) \in C THEN 1 + SpanLen(From(s, 2), C) ELSE 0

AllIn(s, C) == SpanLen(s, C) = Len(s)

\* s.replace(/{}/g, r) for a replacement r free of `$` patterns
RECURSIVE ReplacePlaceholder(_, _)
ReplacePlaceholder(s, r) ==
  IF s = "" THEN ""
  ELSE IF StartsWith(s, "{}") THEN r \o ReplacePlaceholder(From(s, 3), r)
  ELSE CharAt(s, 1) \o ReplacePlaceholder(From(s, 2), r)

\* characters encodeURIComponent leaves alone
Unreserved == Letters \cup Digits \cup {"-", "_", ".", "!", "~", "*", "'", "(", ")"}

\* the UTF-8 percent-encoding of the other ASCII characters the model uses
PercentCode(c) ==
  CASE c = " " -> "%20" [] c = "/" -> "%2F" [] c = ":" -> "%3A"
    [] c = "?" -> "%3F" [] c = "=" -> "%3D" [] c = "{" -> "%7B"
    [] c = "}" -> "%7D" [] c = "#" -> "%23" [] c = "&" -> "%26"
    [] c = "%" -> "%25" [] c = "+" -> "%2B" [] c = "$" -> "%24"
    [] c = "\t" -> "%09" [] c = "\n" -> "%0A"

RECURSIVE encodeURIComponent(_)
encodeURIComponent(s) ==
  IF s = "" THEN ""
  ELSE LET c == CharAt(s, 1)
       IN (IF c \in Unreserved THEN c ELSE PercentCode(c))
            \o encodeURIComponent(From(s, 2))

(***************************************************************************)
(* URL predicates and URL construction (Search).                           *)
(***************************************************************************)
\* hasProtocol testing for https:// alone
hasProtocol_HttpsOnly(s) == StartsWith(toLowerCase(s), "https://")

\* /^[a-zA-Z]+:\/\//i
hasProtocol(s) ==
  LET n == SpanLen(s, Letters)
  IN n >= 1 /\ StartsWith(From(s, n + 1), "://")

\* (\.[\w-]+)+\.?  matched against the whole of r
RECURSIVE DotLabels(_, _)
DotLabels(r, count) ==
  IF r = "" \/ r = "." THEN count >= 1
  ELSE IF CharAt(r, 1) # "." THEN FALSE
  ELSE LET n == SpanLen(From(r, 2), WordOrDash)
       IN n >= 1 /\ DotLabels(From(r, n + 2), count + 1)

\* (:\d+)?(\/\S*)?  matched against the whole of r
UrlTailOk(r) ==
  LET d == IF StartsWith(r, ":") THEN SpanLen(From(r, 2), Digits) ELSE 0
      t == IF d >= 1 THEN From(r, d + 2) ELSE r
  IN t = "" \/ (CharAt(t, 1) = "/"
                /\ \A i \in 2..Len(t) : CharAt(t, i) \notin Whitespace)

\* /^((https?:\/\/)?[\w-]+(\.[\w-]+)+\.?(:\d+)?(\/\S*)?)$/i
isUrl(s) ==
  LET l == toLowerCase(s)
      body == IF StartsWith(l, "https://") THEN From(s, 9)
              ELSE IF StartsWith(l, "http://") THEN From(s, 8)
              ELSE s
      n1 == SpanLen(body, WordOrDash)
      hl == SpanLen(body, WordOrDash \cup {"."})
  IN /\ n1 >= 1
     /\ DotLabels(SubSeq(body, n1 + 1, hl), 0)
     /\ UrlTailOk(From(body, hl + 1))

\* the document's own location, against which an <a> element resolves an
\* href that is not an absolute URL (the published demo page)
PageOrigin == "https://chadprobert.github.io"
PageDir == "/celerity/"

\* position of the first character of s, at or after i, that is in C; Len+1 if none
RECURSIVE FirstIn(_, _, _)
FirstIn(s, C, i) ==
  IF i > Len(s) THEN Len(s) + 1
  ELSE IF CharAt(s, i) \in C THEN i
  ELSE FirstIn(s, C, i + 1)

\* [baseUrl, rest] as read off an <a> element given href = url:
\* baseUrl = protocol + "//" + hostname (the port is not part of hostname),
\* rest = pathname + search (the fragment is in neither)
splitUrl(url) ==
  LET u == IF url = Undef THEN "undefined" ELSE url
      n == SpanLen(u, Letters)
  IN IF ~hasProtocol(u)
     THEN \* a relative reference: resolved against the page
          <<PageOrigin, PageDir \o u>>
     ELSE LET scheme == toLowerCase(SubSeq(u, 1, n))
              after == From(u, n + 4)
              ae == FirstIn(after, {"/", "?", "#"}, 1)
              authority == SubSeq(after, 1, ae - 1)
              he == FirstIn(authority, {":"}, 1)
              hostname == SubSeq(authority, 1, he - 1)
              tail == From(after, ae)
              qs == FirstIn(tail, {"?", "#"}, 1)
              fs == FirstIn(tail, {"#"}, 1)
              pathname == IF qs = 1 THEN "/" ELSE SubSeq(tail, 1, qs - 1)
              query == SubSeq(tail, qs, fs - 1)
              search == IF query = "?" THEN "" ELSE query
          IN IF hostname = ""
             THEN \* not a valid URL: the element reports protocol ":" and empty parts
                  <<"://", "">>
             ELSE <<scheme \o "://" \o hostname, pathname \o search>>

(***************************************************************************)
(* A Command's searchTemplate is absent, one string or an array of        *)
(* strings: kind says which, list holds the template(s).                   *)
(***************************************************************************)
NoTemplate == [kind |-> "none", list |-> <<>>]
OneTemplate(t) == [kind |-> "string", list |-> <<t>>]
ManyTemplates(ts) == [kind |-> "array", list |-> ts]

\* !searchPath
TemplateFalsy(tpl) ==
  tpl.kind = "none" \/ (tpl.kind = "string" /\ tpl.list[1] = "")

\* formatSearchUrl formatting the first template only
formatSearchUrl_FirstOnly(url, searchPath, search) ==
  IF searchPath.kind = "none" \/ searchPath.list = <<>> \/ searchPath.list[1] = ""
  THEN [list |-> <<url>>, isArray |-> FALSE]
  ELSE [list |-> <<splitUrl(url)[1]
                     \o ReplacePlaceholder(searchPath.list[1], encodeURIComponent(search))>>,
        isArray |-> searchPath.kind = "array"]

\* formatSearchUrl: the url value (a list: one url, or one url per template)
\* and whether that value is an array
formatSearchUrl(url, searchPath, search) ==
  IF TemplateFalsy(searchPath)
  THEN [list |-> <<url>>, isArray |-> FALSE]
  ELSE LET baseUrl == splitUrl(url)[1]
           urlQuery == encodeURIComponent(search)
       IN [list |-> [i \in 1..Len(searchPath.list) |->
                       baseUrl \o ReplacePlaceholder(searchPath.list[i], urlQuery)],
           isArray |-> searchPath.kind = "array"]

(***************************************************************************)
(* COMMANDS: a JavaScript Map, i.e. a list of [key, value] entries in      *)
(* insertion order with at most one entry per key.                         *)
(***************************************************************************)
\* a Command object; a field the object lacks is Undef (suggestions: <<>>)
Cmd(name, url, tpl, suggestions) ==
  [isNull |-> FALSE, name |-> name, url |-> url, searchTemplate |-> tpl,
   suggestions |-> suggestions, command |-> Undef, key |-> Undef]

\* the JSON value null stored where a Command object is expected
NullValue ==
  [isNull |-> TRUE, name |-> Undef, url |-> Undef, searchTemplate |-> NoTemplate,
   suggestions |-> <<>>, command |-> Undef, key |-> Undef]

Entry(k, v) == [key |-> k, value |-> v]

KeysOf(m) == {m[i].key : i \in 1..Len(m)}

\* Map.prototype.has
MapHas(m, k) == k \in KeysOf(m)

MapIndex(m, k) == CHOOSE i \in 1..Len(m) : m[i].key = k

\* Map.prototype.get, for a key the map has
MapGet(m, k) == m[MapIndex(m, k)].value

\* Map.prototype.set: an existing key keeps its position, a new key goes last
MapSet(m, k, v) ==
  IF MapHas(m, k)
  THEN [m EXCEPT ![MapIndex(m, k)] = Entry(k, v)]
  ELSE Append(m, Entry(k, v))

\* Map.prototype.delete
MapDelete(m, k) ==
  IF MapHas(m, k)
  THEN LET i == MapIndex(m, k)
       IN SubSeq(m, 1, i - 1) \o SubSeq(m, i + 1, Len(m))
  ELSE m

(***************************************************************************)
(* Search.parseQuery.                                                      *)
(***************************************************************************)
\* position of the last occurrence of p in s; 0 if none
RECURSIVE LastIndexFrom(_, _, _)
LastIndexFrom(s, p, i) ==
  IF i < 1 THEN 0
  ELSE IF SubSeq(s, i, i + Len(p) - 1) = p THEN i
  ELSE LastIndexFrom(s, p, i - 1)

\* SplitFirst splitting at the last occurrence of splitBy
SplitFirst_AtLast(query, splitBy) ==
  LET i == LastIndexFrom(query, splitBy, Len(query) - Len(splitBy) + 1)
  IN IF i = 0 THEN <<query, Undef>>
     ELSE <<SubSeq(query, 1, i - 1), From(query, i + Len(splitBy))>>

\* query.split(new RegExp(`${splitBy}(.*)`)) destructured into two names:
\* the text before the first splitBy and the text after it (Undef when
\* splitBy does not occur)
SplitFirst(query, splitBy) ==
  LET i == IndexOf(query, splitBy)
  IN IF i = 0 THEN <<query, Undef>>
     ELSE <<SubSeq(query, 1, i - 1), From(query, i + Len(splitBy))>>

\* what parseQuery returns: the object's fields (Undef when the object lacks
\* the field); url is a list with isArray saying whether the value is an
\* array; error names the exception thrown instead of a return; branch is
\* the CASE of the source that returned
Descriptor(branch, query, url, isArray, key, search, splitBy, path, tpl) ==
  [error |-> "none", branch |-> branch, query |-> query, url |-> url,
   isArray |-> isArray, key |-> key, search |-> search, splitBy |-> splitBy,
   path |-> path, searchTemplate |-> tpl]

Thrown(e) ==
  [error |-> e, branch |-> 0, query |-> Undef, url |-> <<>>, isArray |-> FALSE,
   key |-> Undef, search |-> Undef, splitBy |-> Undef, path |-> Undef,
   searchTemplate |-> NoTemplate]

\* CASE 2 once COMMANDS.has(query): destructuring null throws a TypeError; a
\* truthy `command` is parsed in its place (stack: frames left for the call)
RECURSIVE parseQuery(_, _, _, _)
\* CASE 2 keeping the text that was typed as the query of a redirection
ExactMatch_KeepsQuery(query, cmds, config, stack) ==
  LET v == MapGet(cmds, query)
  IN IF v.isNull THEN Thrown("TypeError")
     ELSE IF Truthy(v.command)
     THEN IF stack = 0 THEN Thrown("RangeError")
          ELSE [parseQuery(v.command, cmds, config, stack - 1) EXCEPT !.query = query]
     ELSE Descriptor(2, query, <<v.url>>, FALSE, v.key, Undef, Undef, Undef,
                     NoTemplate)

ExactMatch(query, cmds, config, stack) ==
  LET v == MapGet(cmds, query)
  IN IF v.isNull THEN Thrown("TypeError")
     ELSE IF Truthy(v.command)
     THEN IF stack = 0 THEN Thrown("RangeError")
          ELSE parseQuery(v.command, cmds, config, stack - 1)
     ELSE Descriptor(2, query, <<v.url>>, FALSE, v.key, Undef, Undef, Undef,
                     NoTemplate)

\* CASE 3 once COMMANDS.has(searchKey) && rawSearch
SearchCommand(query, searchKey, rawSearch, cmds, config) ==
  LET v == MapGet(cmds, searchKey)
      search == Trim(rawSearch)
      url == formatSearchUrl(v.url, v.searchTemplate, search)
  IN IF v.isNull THEN Thrown("TypeError")
     ELSE Descriptor(3, query, url.list, url.isArray, searchKey, search,
                     config.commandSearchDelimiter, Undef, v.searchTemplate)

\* PathCommand percent-encoding the path
PathCommand_Encoded(query, pathKey, path, cmds, config) ==
  LET v == MapGet(cmds, pathKey)
      baseUrl == splitUrl(v.url)[1]
  IN IF v.isNull THEN Thrown("TypeError")
     ELSE Descriptor(4, query, <<baseUrl \o "/" \o encodeURIComponent(path)>>, FALSE,
                     pathKey, Undef, config.commandPathDelimiter, path, NoTemplate)

\* CASE 4 once COMMANDS.has(pathKey) && path
PathCommand(query, pathKey, path, cmds, config) ==
  LET v == MapGet(cmds, pathKey)
      baseUrl == splitUrl(v.url)[1]
  IN IF v.isNull THEN Thrown("TypeError")
     ELSE Descriptor(4, query, <<baseUrl \o "/" \o path>>, FALSE, pathKey,
                     Undef, config.commandPathDelimiter, path, NoTemplate)

\* DefaultSearch with the template of the engine CONFIG names in its literal
DefaultSearch_Google(query, config) ==
  LET parts == splitUrl("https://www.google.com/search?q={}")
      url == formatSearchUrl(parts[1], OneTemplate(parts[2]), query)
  IN Descriptor(5, query, url.list, url.isArray, Undef, query, Undef, Undef,
                NoTemplate)

\* CASE 5
DefaultSearch(query, config) ==
  LET parts == splitUrl(config.defaultSearchTemplate)
      url == formatSearchUrl(parts[1], OneTemplate(parts[2]), query)
  IN Descriptor(5, query, url.list, url.isArray, Undef, query, Undef, Undef,
                NoTemplate)

\* parseQuery looking the query up in COMMANDS before testing it for a URL
parseQuery_ExactFirst(raw, cmds, config, stack) ==
  LET query == Trim(raw)
  IN IF MapHas(cmds, query)
     THEN ExactMatch(query, cmds, config, stack)
     ELSE IF isUrl(query)
     THEN Descriptor(1, query,
                     <<IF hasProtocol(query) THEN query ELSE "https://" \o query>>,
                     FALSE, Undef, Undef, Undef, Undef, NoTemplate)
     ELSE DefaultSearch(query, config)

\* parseQuery trying the path command before the search command
parseQuery_PathFirst(raw, cmds, config, stack) ==
  LET query == Trim(raw)
      bySearch == SplitFirst(query, config.commandSearchDelimiter)
      byPath == SplitFirst(query, config.commandPathDelimiter)
  IN IF isUrl(query)
     THEN Descriptor(1, query,
                     <<IF hasProtocol(query) THEN query ELSE "https://" \o query>>,
                     FALSE, Undef, Undef, Undef, Undef, NoTemplate)
     ELSE IF MapHas(cmds, query)
     THEN ExactMatch(query, cmds, config, stack)
     ELSE IF MapHas(cmds, byPath[1]) /\ Truthy(byPath[2])
     THEN PathCommand(query, byPath[1], byPath[2], cmds, config)
     ELSE IF MapHas(cmds, bySearch[1]) /\ Truthy(bySearch[2])
     THEN SearchCommand(query, bySearch[1], bySearch[2], cmds, config)
     ELSE DefaultSearch(query, config)

parseQuery(raw, cmds, config, stack) ==
  LET query == Trim(raw)
      bySearch == SplitFirst(query, config.commandSearchDelimiter)
      byPath == SplitFirst(query, config.commandPathDelimiter)
  IN IF isUrl(query)
     THEN Descriptor(1, query,
                     <<IF hasProtocol(query) THEN query ELSE "https://" \o query>>,
                     FALSE, Undef, Undef, Undef, Undef, NoTemplate)
     ELSE IF MapHas(cmds, query)
     THEN ExactMatch(query, cmds, config, stack)
     ELSE IF MapHas(cmds, bySearch[1]) /\ Truthy(bySearch[2])
     THEN SearchCommand(query, bySearch[1], bySearch[2], cmds, config)
     ELSE IF MapHas(cmds, byPath[1]) /\ Truthy(byPath[2])
     THEN PathCommand(query, byPath[1], byPath[2], cmds, config)
     ELSE DefaultSearch(query, config)

(***************************************************************************)
(* CONFIG and the built-in command sets.                                   *)
(***************************************************************************)
searchEngineTemplates ==
  [google |-> "https://www.google.com/search?q={}",
   duckduckgo |-> "https://duckduckgo.com/?q={}"]

\* CONFIG.searchEngineTemplates[engine]; undefined for any other name
TemplateOf(engine) ==
  IF engine \in DOMAIN searchEngineTemplates
  THEN searchEngineTemplates[engine]
  ELSE Undef

suggestionLimit == 4

\* the CONFIG object literal, before CONFIG.init() has run
ConfigLiteral ==
  [commandPathDelimiter |-> "/", commandSearchDelimiter |-> " ",
   defaultSearchEngine |-> "google", defaultSearchTemplate |-> Undef,
   openLinksInNewTab |-> TRUE, suggestionLimit |-> suggestionLimit]

\* the COMMANDS Map literal of the configuration script
DefaultCommands ==
  << Entry("g", Cmd("Gmail", "https://mail.google.com/mail/u/0/#inbox",
                    NoTemplate, <<>>)),
     Entry("y", Cmd("YouTube", "https://youtube.com/",
                    OneTemplate("/results?search_query={}"),
                    <<"y/feed/subscriptions">>)),
     Entry("m", Cmd("Metabase",
                    "https://metabase.hyperiondev.com/dashboard/157-my-dashboard",
                    NoTemplate, <<>>)),
     Entry("d", Cmd("Dropbox", "https://www.dropbox.com/work",
                    OneTemplate("/search/work?path=%2F&query={}"), <<>>)),
     Entry("a", Cmd("Chat", "https://chat.openai.com/chat",
                    OneTemplate("/?q={}"), <<>>)),
     Entry("n", Cmd("Netflix", "https://www.netflix.com/browse", NoTemplate, <<>>)),
     Entry("c", Cmd("Cogrammer", "https://hyperiondev.cogrammar.com/", NoTemplate,
                    <<"c/reviewer/completed/", "c/reviewer/returned_reviews/">>)),
     Entry("l", Cmd("Localhost", "http://localhost:3000", NoTemplate, <<>>)),
     Entry("gh", Cmd("GitHub", "https://github.com/",
                     OneTemplate("/search?q={}"), <<>>)),
     Entry("k", Cmd("Knowledge",
                    "https://sites.google.com/hyperiondev.com/hyperiondev-kb/home?authuser=0",
                    NoTemplate, <<>>)),
     Entry("r", Cmd("Reddit", "https://reddit.com", NoTemplate,
                    <<"r/r/webdev", "r/r/learnprogramming", "r/r/gamedev",
                      "r/r/LifeProTips/">>)),
     Entry("s", Cmd("Spotify", "https://open.spotify.com",
                    OneTemplate("/search/{}"), <<>>)) >>

\* ModalManager.DEFAULT_SETTINGS.commands, the set a reset installs
DEFAULT_SETTINGS ==
  [DefaultCommands EXCEPT
     ![9] = Entry("gh", Cmd("GitHub", "https://github.com/",
                            OneTemplate("/hyperiondev-bootcamps/{}"), <<>>))]

(***************************************************************************)
(* localStorage and the `commands` document.                               *)
(***************************************************************************)
\* what getItem returns for an entry that was never set
NullItem == "<null>"

\* the text stored under "commands": absent; text JSON.parse rejects; the
\* JSON text `null`; or a JSON object whose members are listed in entries
NoDocument == [kind |-> "absent", entries |-> <<>>]
UnparseableDocument == [kind |-> "unparseable", entries |-> <<>>]
NullDocument == [kind |-> "null", entries |-> <<>>]
ObjectDocument(m) == [kind |-> "object", entries |-> m]

RECURSIVE ToNumber(_)
ToNumber(k) ==
  IF k = "" THEN 0
  ELSE LET d == CharAt(k, Len(k))
           v == CASE d = "0" -> 0 [] d = "1" -> 1 [] d = "2" -> 2 [] d = "3" -> 3
                  [] d = "4" -> 4 [] d = "5" -> 5 [] d = "6" -> 6 [] d = "7" -> 7
                  [] d = "8" -> 8 [] d = "9" -> 9
       IN 10 * ToNumber(SubSeq(k, 1, Len(k) - 1)) + v

\* a property name that is a canonical array index
IsIndexKey(k) ==
  k # "" /\ AllIn(k, Digits) /\ (Len(k) = 1 \/ CharAt(k, 1) # "0")

RECURSIVE SortedIndexEntries(_)
SortedIndexEntries(m) ==
  IF \A i \in 1..Len(m) : ~IsIndexKey(m[i].key) THEN <<>>
  ELSE LET i == CHOOSE j \in 1..Len(m) :
                  /\ IsIndexKey(m[j].key)
                  /\ \A h \in 1..Len(m) :
                       IsIndexKey(m[h].key) =>
                         ToNumber(m[j].key) <= ToNumber(m[h].key)
       IN <<m[i]>> \o SortedIndexEntries(SubSeq(m, 1, i - 1) \o SubSeq(m, i + 1, Len(m)))

\* the own-property order of a JavaScript object built from the entries m:
\* index keys in ascending numeric order, then the other keys in insertion
\* order (what Object.fromEntries + JSON.stringify + JSON.parse +
\* Object.entries make of a Map's order)
ObjectOrder(m) ==
  SortedIndexEntries(m) \o SelectSeq(m, LAMBDA e : ~IsIndexKey(e.key))

\* saveCommands: the text written under "commands"
saveCommands(cmds) == ObjectDocument(ObjectOrder(cmds))

\* CONFIG.init, given the CONFIG literal
ConfigInit(ls) ==
  LET tab == IF ls.tabBehavior # NullItem
             THEN ls.tabBehavior = "new"
             ELSE ConfigLiteral.openLinksInNewTab
      engine == IF ls.searchEngine # NullItem /\ Truthy(TemplateOf(ls.searchEngine))
                THEN ls.searchEngine
                ELSE ConfigLiteral.defaultSearchEngine
  IN [ConfigLiteral EXCEPT
        !.openLinksInNewTab = tab,
        !.defaultSearchEngine = engine,
        !.defaultSearchTemplate = TemplateOf(engine)]

\* the loop body of loadCommands: older documents get the searchTemplate of
\* "d" and "gh" added
Upgraded(e) ==
  IF e.key = "d" /\ TemplateFalsy(e.value.searchTemplate)
  THEN Entry(e.key, [e.value EXCEPT
                       !.searchTemplate = OneTemplate("/search/work?path=%2F&query={}")])
  ELSE IF e.key = "gh" /\ TemplateFalsy(e.value.searchTemplate)
  THEN Entry(e.key, [e.value EXCEPT !.searchTemplate = OneTemplate("/search?q={}")])
  ELSE e

\* the entries of the document for which loadCommands's loop body throws:
\* reading value.searchTemplate of a null value under key "d" or "gh"
LoadThrowsAt(e) == e.key \in {"d", "gh"} /\ e.value.isNull

RECURSIVE LoadEntries(_, _)
LoadEntries(entries, acc) ==
  IF entries = <<>> \/ LoadThrowsAt(Head(entries)) THEN acc
  ELSE LoadEntries(Tail(entries), MapSet(acc, Head(entries).key, Upgraded(Head(entries)).value))

\* loadCommands with COMMANDS.clear() moved in front of JSON.parse
loadCommands_ClearFirst(cmds, doc) ==
  IF doc.kind = "absent" THEN [COMMANDS |-> cmds, document |-> doc]
  ELSE IF doc.kind \in {"unparseable", "null"} THEN [COMMANDS |-> <<>>, document |-> doc]
  ELSE LET entries == ObjectOrder(doc.entries)
       IN [COMMANDS |-> LoadEntries(entries, <<>>), document |-> doc]

\* loadCommands: the store and the stored document it leaves, given the
\* store before the call
loadCommands(cmds, doc) ==
  IF doc.kind = "absent" THEN [COMMANDS |-> cmds, document |-> doc]
  ELSE IF doc.kind = "unparseable" THEN [COMMANDS |-> cmds, document |-> doc]
  ELSE IF doc.kind = "null"
  THEN \* COMMANDS.clear() has run when Object.entries(null) throws
       [COMMANDS |-> <<>>, document |-> doc]
  ELSE LET entries == ObjectOrder(doc.entries)
           loaded == LoadEntries(entries, <<>>)
           threw == \E i \in 1..Len(entries) : LoadThrowsAt(entries[i])
           updated == \E i \in 1..Len(entries) : Upgraded(entries[i]) # entries[i]
       IN [COMMANDS |-> loaded,
           document |-> IF updated /\ ~threw
                        THEN ObjectDocument([i \in 1..Len(entries) |-> Upgraded(entries[i])])
                        ELSE doc]

(***************************************************************************)
(* State.                                                                  *)
(***************************************************************************)
VARIABLES
  COMMANDS,        \* the COMMANDS Map
  CONFIG,          \* the CONFIG object
  localStorage,    \* [commands, tabBehavior, searchEngine]
  confirmModal,    \* #confirmModal: displayed?, message, and the pending promise
  reading,         \* the file a FileReader is reading for handleImportFile
  exported,        \* the file exportConfig last downloaded
  gesture          \* the user gesture handled last, and what it made happen

storeVars == <<COMMANDS, CONFIG, localStorage, confirmModal, reading, exported, gesture>>

\* no promise is pending on the confirm dialog
NoPending == [op |-> "none"]

ModalHidden == [display |-> FALSE, message |-> "", pending |-> NoPending]

\* no file
NoFile == [json |-> "none"]

\* nothing was overridden and no dialog was answered
NoAttempt == [op |-> "none"]

Gesture(name, attempt) ==
  [name |-> name, attempt |-> attempt, overridden |-> {}, answeredDialog |-> FALSE]

EmptyStorage ==
  [commands |-> NoDocument, tabBehavior |-> NullItem, searchEngine |-> NullItem]

\* the page after its scripts have run on the given localStorage: CONFIG.init(),
\* the COMMANDS literal, then ModalManager.initializeSettings -> loadCommands
PageLoad(ls) ==
  LET loaded == loadCommands(DefaultCommands, ls.commands)
  IN /\ CONFIG' = ConfigInit(ls)
     /\ COMMANDS' = loaded.COMMANDS
     /\ localStorage' = [ls EXCEPT !.commands = loaded.document]
     /\ confirmModal' = ModalHidden
     /\ reading' = NoFile

StoreInit ==
  /\ CONFIG = ConfigInit(EmptyStorage)
  /\ COMMANDS = DefaultCommands
  /\ localStorage = EmptyStorage
  /\ confirmModal = ModalHidden
  /\ reading = NoFile
  /\ exported = NoFile
  /\ gesture = Gesture("load", NoAttempt)

(***************************************************************************)
(* The settings modal: create, edit, delete, reset.                        *)
(***************************************************************************)
\* renderShortcuts / commandsComponent.render read value.name of every
\* entry: they throw on a null value
RenderThrows(cmds) == \E i \in 1..Len(cmds) : cmds[i].value.isNull

\* the prefix added whatever the text starts with
WithProtocol_Always(u) == "https://" \o u

\* "Automatically add https:// prefix to URLs without a protocol"
WithProtocol(u) ==
  IF ~StartsWith(u, "http://") /\ ~StartsWith(u, "https://")
  THEN "https://" \o u
  ELSE u

\* the part of createNewShortcut after the override question
CreateApply(cmds, p) ==
  MapSet(cmds, p.key, Cmd(p.name, p.url, NoTemplate, <<>>))

\* the part of saveEditedShortcut after the override question
EditApply(cmds, p) ==
  MapSet(IF p.key # p.oldKey THEN MapDelete(cmds, p.oldKey) ELSE cmds,
         p.key, [p.value EXCEPT !.name = p.name, !.url = p.url])

\* resetSettings once confirmed: the configuration part
ResetConfig(cfg) ==
  [cfg EXCEPT !.openLinksInNewTab = FALSE,
              !.defaultSearchEngine = "google",
              !.defaultSearchTemplate = searchEngineTemplates.google]

ResetStorage(ls) ==
  [ls EXCEPT !.tabBehavior = "current", !.searchEngine = "google",
             !.commands = saveCommands(DEFAULT_SETTINGS)]

\* the keys whose existing Command a resumed create / renaming edit replaces
Overrides(cmds, p) ==
  IF p.op = "create" /\ MapHas(cmds, p.key) THEN {p.key}
  ELSE IF p.op = "edit" /\ p.key # p.oldKey /\ MapHas(cmds, p.key) THEN {p.key}
  ELSE {}

\* the promise of customConfirm resolves with `answer` and the awaiting
\* handler p runs to its end; g is the gesture that made it resolve
Resume(p, answer, g) ==
  /\ confirmModal' = ModalHidden
  /\ UNCHANGED exported
  /\ IF ~answer \/ p.op = "info"
     THEN /\ UNCHANGED <<COMMANDS, CONFIG, localStorage, reading>>
          /\ gesture' = g
     ELSE CASE p.op = "create" ->
                 /\ COMMANDS' = CreateApply(COMMANDS, p)
                 /\ localStorage' = [localStorage EXCEPT !.commands = saveCommands(COMMANDS')]
                 /\ gesture' = [g EXCEPT !.overridden = Overrides(COMMANDS, p)]
                 /\ UNCHANGED <<CONFIG, reading>>
            [] p.op = "edit" ->
                 /\ COMMANDS' = EditApply(COMMANDS, p)
                 /\ localStorage' = [localStorage EXCEPT !.commands = saveCommands(COMMANDS')]
                 /\ gesture' = [g EXCEPT !.overridden = Overrides(COMMANDS, p)]
                 /\ UNCHANGED <<CONFIG, reading>>
            [] p.op = "delete" ->
                 /\ COMMANDS' = MapDelete(COMMANDS, p.key)
                 /\ localStorage' = [localStorage EXCEPT !.commands = saveCommands(COMMANDS')]
                 /\ gesture' = g
                 /\ UNCHANGED <<CONFIG, reading>>
            [] p.op = "reset" ->
                 /\ COMMANDS' = DEFAULT_SETTINGS
                 /\ CONFIG' = ResetConfig(CONFIG)
                 /\ localStorage' = ResetStorage(localStorage)
                 /\ gesture' = g
                 /\ UNCHANGED reading
            [] p.op = "import" ->
                 /\ reading' = p.file
                 /\ gesture' = g
                 /\ UNCHANGED <<COMMANDS, CONFIG, localStorage>>

\* customConfirm: the dialog is displayed and the caller awaits the answer
Ask(p, g) ==
  /\ confirmModal' = [display |-> TRUE, message |-> p.op, pending |-> p]
  /\ gesture' = g
  /\ UNCHANGED <<COMMANDS, CONFIG, localStorage, reading, exported>>

\* A handler that asks p, started by `via`. A click leaves the dialog
\* displayed. An Enter keydown in one of the item's input fields runs the
\* field's listener up to its await, with the dialog now displayed, and the
\* same event then reaches the document's keydown listener
\* (addEnterKeyListenerToConfirmDialog), which clicks the OK button: the
\* promise resolves true and the handler resumes in the same turn.
AskVia(p, via) ==
  IF via = "enter"
  THEN Resume(p, TRUE, Gesture("enterInField", p))
  ELSE Ask(p, Gesture("click", p))

\* what the user may type into the key, name and URL fields of an item
KeyInputs == {"", " ", "y", "q"}
NameInputs == {"", "Q"}
UrlInputs == {"", "q.io"}

\* the existing shortcuts the user edits or deletes
EditKeys == {"y", "q"}

\* how a create or an edit is submitted: the add/save button, or Enter in a field
Submissions == {"click", "enter"}

\* the gestures below need the settings list to have rendered, the confirm
\* dialog (a full-window overlay) not to be in the way, and no file read to
\* be under way (a read ends before the user's next gesture)
Idle == ~confirmModal.display /\ reading = NoFile

Rejected(g) ==
  /\ gesture' = g
  /\ UNCHANGED <<COMMANDS, CONFIG, localStorage, confirmModal, reading, exported>>

\* createNewShortcut, from the add button or from Enter in a field
createNewShortcut(rawKey, rawName, rawUrl, via) ==
  LET p == [op |-> "create", key |-> rawKey, name |-> rawName,
            url |-> WithProtocol(Trim(rawUrl)),
            raw |-> <<rawKey, rawName, rawUrl>>]
  IN /\ Idle /\ ~RenderThrows(COMMANDS)
     /\ IF rawKey # "" /\ rawName # "" /\ rawUrl # ""
        THEN IF MapHas(COMMANDS, rawKey)
             THEN AskVia(p, via)
             ELSE Resume(p, TRUE, Gesture(IF via = "enter" THEN "enterInField" ELSE "click", p))
        ELSE Rejected(Gesture(IF via = "enter" THEN "enterInField" ELSE "click", p))

\* saveEditedShortcut of the item rendered for key, from the save button or
\* from Enter in a field
saveEditedShortcut(key, rawKey, rawName, rawUrl, via) ==
  LET p == [op |-> "edit", oldKey |-> key, value |-> MapGet(COMMANDS, key),
            key |-> Trim(rawKey), name |-> Trim(rawName),
            url |-> WithProtocol(Trim(rawUrl)),
            raw |-> <<rawKey, rawName, rawUrl>>]
      g == Gesture(IF via = "enter" THEN "enterInField" ELSE "click", p)
  IN /\ Idle /\ ~RenderThrows(COMMANDS)
     /\ MapHas(COMMANDS, key)
     /\ IF Trim(rawKey) = "" \/ Trim(rawName) = "" \/ Trim(rawUrl) = ""
        THEN Rejected(g)
        ELSE IF p.key # key /\ MapHas(COMMANDS, p.key)
        THEN AskVia(p, via)
        ELSE Resume(p, TRUE, g)

\* deleteShortcut deleting and saving before it asks
deleteShortcut_ThenAsk(key) ==
  /\ Idle /\ ~RenderThrows(COMMANDS)
  /\ MapHas(COMMANDS, key)
  /\ COMMANDS' = MapDelete(COMMANDS, key)
  /\ localStorage' = [localStorage EXCEPT !.commands = saveCommands(COMMANDS')]
  /\ confirmModal' = [display |-> TRUE, message |-> "delete",
                      pending |-> [op |-> "delete", key |-> key]]
  /\ gesture' = Gesture("click", [op |-> "delete", key |-> key])
  /\ UNCHANGED <<CONFIG, reading, exported>>

\* deleteShortcut of the item rendered for key
deleteShortcut(key) ==
  /\ Idle /\ ~RenderThrows(COMMANDS)
  /\ MapHas(COMMANDS, key)
  /\ Ask([op |-> "delete", key |-> key], Gesture("click", [op |-> "delete", key |-> key]))

\* resetSettings
resetSettings ==
  /\ Idle
  /\ Ask([op |-> "reset"], Gesture("click", [op |-> "reset"]))

\* the dialog's OK button: onOk of customConfirm
ClickOk ==
  /\ confirmModal.display
  /\ Resume(confirmModal.pending, TRUE,
            [Gesture("clickOk", confirmModal.pending) EXCEPT !.answeredDialog = TRUE])

\* Enter pressed while the dialog is displayed: the document's keydown
\* listener clicks the OK button
EnterOnDialog ==
  /\ confirmModal.display
  /\ Resume(confirmModal.pending, TRUE,
            [Gesture("enterOnDialog", confirmModal.pending) EXCEPT !.answeredDialog = TRUE])

\* the dialog's Cancel button (hidden when the dialog only informs): onCancel
ClickCancel ==
  /\ confirmModal.display
  /\ confirmModal.pending.op # "info"
  /\ Resume(confirmModal.pending, FALSE,
            [Gesture("clickCancel", confirmModal.pending) EXCEPT !.answeredDialog = TRUE])

\* the page is loaded again
Reload ==
  /\ PageLoad(localStorage)
  /\ gesture' = Gesture("load", NoAttempt)
  /\ UNCHANGED exported

(***************************************************************************)
(* Settings surface, export and import.                                    *)
(***************************************************************************)
\* handleTabBehaviorChange
handleTabBehaviorChange(selectedBehavior) ==
  /\ Idle
  /\ localStorage' = [localStorage EXCEPT !.tabBehavior = selectedBehavior]
  /\ CONFIG' = [CONFIG EXCEPT !.openLinksInNewTab = (selectedBehavior = "new")]
  /\ gesture' = Gesture("change", [op |-> "tabBehavior", value |-> selectedBehavior])
  /\ UNCHANGED <<COMMANDS, confirmModal, reading, exported>>

\* handleSearchEngineChange that stores the selection and leaves CONFIG to
\* the next page load
handleSearchEngineChange_StoreOnly(selectedEngine) ==
  /\ Idle
  /\ localStorage' = [localStorage EXCEPT !.searchEngine = selectedEngine]
  /\ gesture' = Gesture("change", [op |-> "searchEngine", value |-> selectedEngine])
  /\ UNCHANGED <<COMMANDS, CONFIG, confirmModal, reading, exported>>

\* handleSearchEngineChange
handleSearchEngineChange(selectedEngine) ==
  /\ Idle
  /\ localStorage' = [localStorage EXCEPT !.searchEngine = selectedEngine]
  /\ CONFIG' = [CONFIG EXCEPT !.defaultSearchEngine = selectedEngine,
                              !.defaultSearchTemplate = TemplateOf(selectedEngine)]
  /\ gesture' = Gesture("change", [op |-> "searchEngine", value |-> selectedEngine])
  /\ UNCHANGED <<COMMANDS, confirmModal, reading, exported>>

\* a configuration file: text JSON.parse rejects, the JSON text `null`, or an
\* object with the members tabBehavior, searchEngine (Undef when missing)
\* and commands (a document as above, "absent" when missing)
FileObject(tabBehavior, searchEngine, commands) ==
  [json |-> "object", tabBehavior |-> tabBehavior, searchEngine |-> searchEngine,
   commands |-> commands]

\* the settings object exportConfig serialises
ExportOf(cmds, ls) ==
  FileObject(IF ls.tabBehavior # NullItem THEN ls.tabBehavior ELSE "current",
             IF ls.searchEngine # NullItem THEN ls.searchEngine ELSE "google",
             ObjectDocument(ObjectOrder(cmds)))

\* exportConfig
exportConfig ==
  /\ Idle
  /\ exported' = ExportOf(COMMANDS, localStorage)
  /\ gesture' = Gesture("click", [op |-> "export"])
  /\ UNCHANGED <<COMMANDS, CONFIG, localStorage, confirmModal, reading>>

\* a Command that redirects to another input
Alias(name, url, command) == [Cmd(name, url, NoTemplate, <<>>) EXCEPT !.command = command]

\* a file whose commands hold null where a Command object is expected
NullValueFile ==
  FileObject("new", Undef, ObjectDocument(<<Entry("x", NullValue)>>))

\* a file whose two commands redirect to each other
CycleFile ==
  FileObject(Undef, Undef,
             ObjectDocument(<<Entry("p", Alias("P", "https://p.io", "q")),
                              Entry("q", Alias("Q", "https://q.io", "p"))>>))

\* a file with a command that redirects to a search on another, and one
\* with an array of search templates
AliasFile ==
  FileObject(Undef, "duckduckgo",
             ObjectDocument(<<Entry("v", Alias("V", "https://v.io", "y cats")),
                              Entry("y", DefaultCommands[2].value),
                              Entry("t", Cmd("T", "https://t.io:8080/x",
                                             ManyTemplates(<<"/a?q={}", "/b/{}/{}">>),
                                             <<>>))>>))

\* a file that turns new tabs off and holds a command with an array of
\* search templates
TemplatesFile ==
  FileObject("current", Undef,
             ObjectDocument(<<Entry("t", Cmd("T", "https://t.io:8080/x",
                                             ManyTemplates(<<"/a?q={}", "/b/{}/{}">>),
                                             <<>>)),
                              Entry("g", DefaultCommands[1].value)>>))

\* a file whose commands hold null under "d", a key loadCommands upgrades
NullUpgradeFile ==
  FileObject(Undef, Undef,
             ObjectDocument(<<Entry("g", DefaultCommands[1].value),
                              Entry("d", NullValue)>>))

\* a file that names a search engine CONFIG.searchEngineTemplates lacks
UnknownEngineFile == FileObject(Undef, "bing", NoDocument)

\* files the user may pick besides the last export
ImportFiles ==
  { [json |-> "unparseable"],
    [json |-> "null"],
    FileObject("current", "duckduckgo", NoDocument),
    NullValueFile, CycleFile, AliasFile, NullUpgradeFile, UnknownEngineFile }

\* handleImportFile up to its question
handleImportFile(file) ==
  /\ Idle
  /\ Ask([op |-> "import", file |-> file], Gesture("change", [op |-> "import", file |-> file]))

\* the dialog that reports the outcome of an import (OK only)
Inform(message) == [display |-> TRUE, message |-> message, pending |-> [op |-> "info"]]

\* reader.onload: the settings applied one after the other; an exception
\* anywhere ends in the error dialog
ImportLoaded ==
  /\ reading # NoFile
  /\ ~confirmModal.display
  /\ reading' = NoFile
  /\ gesture' = Gesture("load", [op |-> "import", file |-> reading])
  /\ UNCHANGED exported
  /\ IF reading.json # "object"
     THEN /\ confirmModal' = Inform("importError")
          /\ UNCHANGED <<COMMANDS, CONFIG, localStorage>>
     ELSE LET tab == reading.tabBehavior
              engine == reading.searchEngine
              replace == reading.commands.kind = "object"
              cmds == IF replace THEN ObjectOrder(reading.commands.entries) ELSE COMMANDS
          IN /\ CONFIG' =
                  [CONFIG EXCEPT
                     !.openLinksInNewTab = IF Truthy(tab) THEN tab = "new" ELSE @,
                     !.defaultSearchEngine = IF Truthy(engine) THEN engine ELSE @,
                     !.defaultSearchTemplate =
                        IF Truthy(engine) THEN TemplateOf(engine) ELSE @]
             /\ COMMANDS' = cmds
             /\ localStorage' =
                  [localStorage EXCEPT
                     !.tabBehavior = IF Truthy(tab) THEN tab ELSE @,
                     !.searchEngine = IF Truthy(engine) THEN engine ELSE @,
                     !.commands = IF replace THEN saveCommands(cmds) ELSE @]
             /\ confirmModal' = IF RenderThrows(cmds)
                                THEN Inform("importError")
                                ELSE Inform("importSuccess")

(***************************************************************************)
(* The search dialog: the text in the input field and what parseQuery     *)
(* returned for it.                                                        *)
(***************************************************************************)
VARIABLES
  input,           \* this.input.value, the raw text
  parsed,          \* the value parseQuery(input) returned, or NotParsed
  opened           \* the window.open calls of execute, in order: [url, target]

searchVars == <<input, parsed, opened>>

NotParsed == Thrown("not called")

SearchInit ==
  /\ input = ""
  /\ parsed = NotParsed
  /\ opened = <<>>

\* characters typed into the search field
InputAlphabet == {"y", "c", " ", "/", "."}

RECURSIVE StringsUpTo(_)
StringsUpTo(n) ==
  IF n = 0 THEN {""}
  ELSE LET shorter == StringsUpTo(n - 1)
       IN shorter \cup {t \o ch : t \in shorter, ch \in InputAlphabet}

\* longer inputs of the shapes the resolver distinguishes
SampleInputs ==
  { "https://q.io", "https://q.io/x", " https://q.io/x ", "http://q.io:80/x?y=1",
    "http://localhost:3000", "ftp://q.io", "https://q.io?x", "q.io",
    "y cats", "y   cats and dogs", "gh a/b", "d x", "g mail", "l/x", "l x",
    "y/feed/subscriptions", "hello world", "a b", "a b c", "a b/c",
    "p", "q", "v", "x", "x y", "x/y", "t a b", "t/a" }

Inputs == StringsUpTo(MaxInputLen) \cup SampleInputs

(***************************************************************************)
(* Suggestions: onInput and the JSONP call to the autocomplete service.    *)
(***************************************************************************)
VARIABLES
  awaiting,              \* the onInput calls suspended at `await fetch...`
  autocompleteCallback,  \* window.autocompleteCallback: the closure assigned last
  scripts,               \* the <script> elements whose response is still to come
  settled,               \* the calls whose promise has been resolved
  rendered               \* the texts of the suggestion list, in order

suggestVars == <<awaiting, autocompleteCallback, scripts, settled, rendered>>

\* window.autocompleteCallback before the first fetch
NoCallback == [call |-> 0, search |-> Undef]

SuggestInit ==
  /\ awaiting = {}
  /\ autocompleteCallback = NoCallback
  /\ scripts = {}
  /\ settled = {}
  /\ rendered = <<>>

\* the phrases the autocomplete service finds for q: q in lower case, q as
\* it was sent, and five completions of it
Answer(q) ==
  <<toLowerCase(q), q, toLowerCase(q) \o "-1", toLowerCase(q) \o "-2",
    toLowerCase(q) \o "-3", toLowerCase(q) \o "-4", toLowerCase(q) \o "-5">>

\* what the service may answer for q: what it finds, or nothing
Answers(q) == {Answer(q), <<>>}

\* attachSearchPrefix
RECURSIVE attachSearchPrefix(_, _)
attachSearchPrefix(array, oq) ==
  IF ~Truthy(oq.splitBy) THEN array
  ELSE IF array = <<>> THEN <<>>
  ELSE <<oq.key \o oq.splitBy \o Head(array)>> \o attachSearchPrefix(Tail(array), oq)

\* COMMANDS.get(query)?.suggestions ?? []
StoreSuggestions(cmds, query) ==
  IF MapHas(cmds, query) /\ ~MapGet(cmds, query).isNull
  THEN MapGet(cmds, query).suggestions
  ELSE <<>>

\* renderSuggestions showing every suggestion it is given
renderSuggestions_All(suggestions, config) == suggestions

\* suggestions.slice(0, CONFIG.suggestionLimit), the texts renderSuggestions shows
renderSuggestions(suggestions, config) ==
  SubSeq(suggestions, 1,
         IF Len(suggestions) < config.suggestionLimit THEN Len(suggestions)
         ELSE config.suggestionLimit)

\* the loop of the callback: the phrases other than the search itself
RECURSIVE Phrases(_, _)
Phrases(res, search) ==
  IF res = <<>> THEN <<>>
  ELSE IF Head(res) = toLowerCase(search) THEN Phrases(Tail(res), search)
  ELSE <<Head(res)>> \o Phrases(Tail(res), search)

\* values of the search field as the user types
TypedInputs == {"h", "he", "He", "y", "y c", "r", " "}

\* the user changes the field to v: the input event runs onInput up to its
\* await, or to its end when nothing is fetched
onInput(v) ==
  LET oq == parseQuery(v, COMMANDS, CONFIG, StackLimit)
      suggestions == StoreSuggestions(COMMANDS, oq.query)
      fetches == oq.error = "none" /\ Truthy(oq.query) /\ Truthy(oq.search)
                   /\ Len(suggestions) < CONFIG.suggestionLimit
      call == Cardinality(awaiting) + Cardinality(settled) + 1
  IN /\ v # input
     /\ fetches => call <= MaxFetches
     /\ UNCHANGED <<storeVars, parsed, opened>>
     /\ IF oq.error # "none"
        THEN /\ input' = v
             /\ UNCHANGED suggestVars
        ELSE IF ~Truthy(oq.query)
        THEN /\ input' = ""
             /\ rendered' = <<>>
             /\ UNCHANGED <<awaiting, autocompleteCallback, scripts, settled>>
        ELSE IF fetches
        THEN /\ input' = v
             /\ autocompleteCallback' = [call |-> call, search |-> oq.search]
             /\ scripts' = scripts \cup {[call |-> call, q |-> oq.search]}
             /\ awaiting' = awaiting \cup
                              {[call |-> call, oq |-> oq, suggestions |-> suggestions]}
             /\ UNCHANGED <<settled, rendered>>
        ELSE /\ input' = v
             /\ rendered' = renderSuggestions(suggestions, CONFIG)
             /\ UNCHANGED <<awaiting, autocompleteCallback, scripts, settled>>

\* The response to script s arrives and calls window.autocompleteCallback with
\* the service's answer for s.q, answer. The closure assigned last resolves its own
\* promise (resolving a settled promise does nothing), and the onInput call
\* that awaits it runs to its end.
ScriptLoaded(s, answer) ==
  LET cb == autocompleteCallback
      res == Phrases(answer, cb.search)
      resumed == {c \in awaiting : c.call = cb.call}
  IN /\ s \in scripts
     /\ scripts' = scripts \ {s}
     /\ UNCHANGED <<storeVars, searchVars, autocompleteCallback>>
     /\ IF resumed = {}
        THEN UNCHANGED <<awaiting, settled, rendered>>
        ELSE LET c == CHOOSE c \in resumed : TRUE
                 all == c.suggestions \o attachSearchPrefix(res, c.oq)
                 nq == parseQuery(input, COMMANDS, CONFIG, StackLimit)
             IN /\ awaiting' = awaiting \ {c}
                /\ settled' = settled \cup {c.call}
                /\ rendered' = IF nq.error # "none" \/ nq.query # c.oq.query
                               THEN rendered
                               ELSE renderSuggestions(all, CONFIG)

\* the request of script s fails: no callback runs
ScriptFailed(s) ==
  /\ s \in scripts
  /\ scripts' = scripts \ {s}
  /\ UNCHANGED <<storeVars, searchVars, awaiting, autocompleteCallback, settled, rendered>>

\* the empty search field is filled with raw and parseQuery runs on it
\* (Search.execute and Search.onInput both start this way)
Resolve(raw) ==
  /\ Idle
  /\ input = "" /\ parsed = NotParsed /\ opened = <<>>
  /\ input' = raw
  /\ parsed' = parseQuery(raw, COMMANDS, CONFIG, StackLimit)
  /\ UNCHANGED <<storeVars, suggestVars, opened>>

\* Search.execute of the text raw: every url of the descriptor is opened
\* with the one target CONFIG.openLinksInNewTab selects, then the dialog is
\* closed; an exception of parseQuery ends the handler before anything opens
execute(raw) ==
  LET parsedQuery == parseQuery(raw, COMMANDS, CONFIG, StackLimit)
      target == IF CONFIG.openLinksInNewTab THEN "_blank" ELSE "_self"
  IN /\ Idle
     /\ input = "" /\ parsed = NotParsed /\ opened = <<>>
     /\ parsedQuery.error = "none"
     /\ opened' = [i \in 1..Len(parsedQuery.url) |->
                     [url |-> parsedQuery.url[i], target |-> target]]
     /\ input' = "" /\ parsed' = NotParsed
     /\ rendered' = <<>>
     /\ UNCHANGED <<storeVars, awaiting, autocompleteCallback, scripts, settled>>

\* Search.close: the field and the suggestion list are emptied
close ==
  /\ parsed # NotParsed
  /\ input' = "" /\ parsed' = NotParsed
  /\ rendered' = <<>>
  /\ UNCHANGED <<storeVars, opened, awaiting, autocompleteCallback, scripts, settled>>

(***************************************************************************)
(* Specifications.                                                         *)
(***************************************************************************)
Init == StoreInit /\ SearchInit /\ SuggestInit

vars == <<storeVars, searchVars, suggestVars>>

\* shortcut management in the settings modal
Next ==
  \/ /\ \E k \in KeyInputs, n \in NameInputs, u \in UrlInputs, via \in Submissions :
          createNewShortcut(k, n, u, via)
     /\ UNCHANGED <<searchVars, suggestVars>>
  \/ /\ \E old \in EditKeys, k \in KeyInputs, n \in NameInputs, u \in UrlInputs,
           via \in Submissions :
          saveEditedShortcut(old, k, n, u, via)
     /\ UNCHANGED <<searchVars, suggestVars>>
  \/ (\E k \in EditKeys : deleteShortcut(k)) /\ UNCHANGED <<searchVars, suggestVars>>
  \/ resetSettings /\ UNCHANGED <<searchVars, suggestVars>>
  \/ ClickOk /\ UNCHANGED <<searchVars, suggestVars>>
  \/ EnterOnDialog /\ UNCHANGED <<searchVars, suggestVars>>
  \/ ClickCancel /\ UNCHANGED <<searchVars, suggestVars>>
  \/ Reload /\ UNCHANGED <<searchVars, suggestVars>>

Spec == Init /\ [][Next]_vars

\* the settings surface, reset, export and import
NextConfig ==
  \/ (\E v \in {"new", "current"} : handleTabBehaviorChange(v)) /\ UNCHANGED <<searchVars, suggestVars>>
  \/ (\E v \in {"google", "duckduckgo"} : handleSearchEngineChange(v))
       /\ UNCHANGED <<searchVars, suggestVars>>
  \/ exportConfig /\ UNCHANGED <<searchVars, suggestVars>>
  \/ (\E f \in ImportFiles \cup {exported} : f # NoFile /\ handleImportFile(f))
       /\ UNCHANGED <<searchVars, suggestVars>>
  \/ ImportLoaded /\ UNCHANGED <<searchVars, suggestVars>>
  \/ resetSettings /\ UNCHANGED <<searchVars, suggestVars>>
  \/ ClickOk /\ UNCHANGED <<searchVars, suggestVars>>
  \/ EnterOnDialog /\ UNCHANGED <<searchVars, suggestVars>>
  \/ ClickCancel /\ UNCHANGED <<searchVars, suggestVars>>
  \/ Reload /\ UNCHANGED <<searchVars, suggestVars>>

SpecConfig == Init /\ [][NextConfig]_vars

\* keys a user gives to shortcuts of their own in the resolver's runs: one
\* shaped like a URL, one that holds the search delimiter, one that holds
\* both delimiters
ResolverKeys == {"q.io", "a b", "a b/c"}

\* the resolver on the stores that creating and importing build: the user
\* adds shortcuts that are not there yet to the built-in set, or imports a
\* file into it; a run follows the page up to its first execute
NextResolve ==
  \/ \E raw \in Inputs : Resolve(raw)
  \/ \E raw \in Inputs : execute(raw)
  \/ close
  \/ /\ parsed = NotParsed /\ opened = <<>>
     /\ gesture.attempt.op \in {"none", "create"}
     /\ \E k \in ResolverKeys :
          ~MapHas(COMMANDS, k) /\ createNewShortcut(k, "Q", "q.io/home", "click")
     /\ UNCHANGED <<searchVars, suggestVars>>
  \/ /\ parsed = NotParsed /\ opened = <<>>
     /\ gesture.attempt = NoAttempt
     /\ \E f \in {NullValueFile, CycleFile, AliasFile, TemplatesFile} :
          handleImportFile(f)
     /\ UNCHANGED <<searchVars, suggestVars>>
  \/ ImportLoaded /\ UNCHANGED <<searchVars, suggestVars>>
  \/ ClickOk /\ UNCHANGED <<searchVars, suggestVars>>

SpecResolve == Init /\ [][NextResolve]_vars

\* typing into the search field while answers of the autocomplete service
\* are on their way
NextSuggest ==
  \/ \E v \in TypedInputs : onInput(v)
  \/ \E s \in scripts : \E answer \in Answers(s.q) : ScriptLoaded(s, answer)
  \/ \E s \in scripts : ScriptFailed(s)

SpecSuggest == Init /\ [][NextSuggest]_vars

\* documents found under "commands" when the page loads: none, text that
\* JSON.parse rejects, the text `null`, the empty object, a document written
\* before "d" and "gh" had search templates, and one with null under "d"
StoredDocuments ==
  { NoDocument, UnparseableDocument, NullDocument, ObjectDocument(<<>>),
    ObjectDocument(<<Entry("g", DefaultCommands[1].value),
                     Entry("d", Cmd("Dropbox", "https://www.dropbox.com/work",
                                    NoTemplate, <<>>))>>),
    NullUpgradeFile.commands }

\* the page loaded over a localStorage that holds one of these documents
InitLoad ==
  /\ \E doc \in StoredDocuments :
       LET ls == [EmptyStorage EXCEPT !.commands = doc]
           loaded == loadCommands(DefaultCommands, doc)
       IN /\ CONFIG = ConfigInit(ls)
          /\ COMMANDS = loaded.COMMANDS
          /\ localStorage = [ls EXCEPT !.commands = loaded.document]
  /\ confirmModal = ModalHidden
  /\ reading = NoFile
  /\ exported = NoFile
  /\ gesture = Gesture("load", NoAttempt)
  /\ SearchInit /\ SuggestInit

\* keys of the shortcuts the user creates and deletes between page loads
LoadKeys == {"d", "q"}

\* page loads over stored documents, with shortcuts created and deleted in
\* between
NextLoad ==
  \/ (\E k \in LoadKeys : createNewShortcut(k, "Q", "q.io", "click"))
       /\ UNCHANGED <<searchVars, suggestVars>>
  \/ (\E k \in LoadKeys \cup {"g"} : deleteShortcut(k)) /\ UNCHANGED <<searchVars, suggestVars>>
  \/ resetSettings /\ UNCHANGED <<searchVars, suggestVars>>
  \/ ClickOk /\ UNCHANGED <<searchVars, suggestVars>>
  \/ ClickCancel /\ UNCHANGED <<searchVars, suggestVars>>
  \/ Reload /\ UNCHANGED <<searchVars, suggestVars>>

SpecLoad == InitLoad /\ [][NextLoad]_vars

\* what is typed into the search field between changes of the settings: two
\* texts no rule but the default search matches, a search command, a key, a
\* URL, a path command
SettingsInputs == {"hello world", "cats", "y cats", "g", "q.io", "c/x"}

\* the settings surface and the search field on the built-in store; a run
\* follows the page up to its first execute
NextSettings ==
  \/ /\ parsed = NotParsed /\ opened = <<>>
     /\ \E v \in {"new", "current"} : handleTabBehaviorChange(v)
     /\ UNCHANGED <<searchVars, suggestVars>>
  \/ /\ parsed = NotParsed /\ opened = <<>>
     /\ \E v \in {"google", "duckduckgo"} : handleSearchEngineChange(v)
     /\ UNCHANGED <<searchVars, suggestVars>>
  \/ \E raw \in SettingsInputs : Resolve(raw)
  \/ \E raw \in SettingsInputs : execute(raw)
  \/ close

SpecSettings == Init /\ [][NextSettings]_vars

\* the keys typed into the key field, and the items edited or deleted, in
\* the runs that answer the confirm dialog either way
AskedKeys == {"y", "q"}

\* every handler that asks before it acts (delete, create and edit onto an
\* existing key, reset, import), submitted with the button and answered
\* with OK or Cancel
NextAsk ==
  \/ (\E k \in AskedKeys : createNewShortcut(k, "Q", "q.io", "click"))
       /\ UNCHANGED <<searchVars, suggestVars>>
  \/ (\E old \in AskedKeys, k \in AskedKeys : saveEditedShortcut(old, k, "Q", "q.io", "click"))
       /\ UNCHANGED <<searchVars, suggestVars>>
  \/ (\E k \in AskedKeys : deleteShortcut(k)) /\ UNCHANGED <<searchVars, suggestVars>>
  \/ resetSettings /\ UNCHANGED <<searchVars, suggestVars>>
  \/ (\E f \in {NullValueFile, AliasFile} : handleImportFile(f))
       /\ UNCHANGED <<searchVars, suggestVars>>
  \/ ImportLoaded /\ UNCHANGED <<searchVars, suggestVars>>
  \/ ClickOk /\ UNCHANGED <<searchVars, suggestVars>>
  \/ ClickCancel /\ UNCHANGED <<searchVars, suggestVars>>

SpecAsk == Init /\ [][NextAsk]_vars

\* a file with two redirections that have suggestions of their own: one to
\* a search on "y", one to the key "y", whose Command has suggestions
RedirectsFile ==
  FileObject(Undef, Undef,
             ObjectDocument(<<Entry("v", [Alias("V", "https://v.io", "y cats")
                                            EXCEPT !.suggestions = <<"v/a">>]),
                              Entry("w", [Alias("W", "https://w.io", "y")
                                            EXCEPT !.suggestions = <<"w/a">>]),
                              Entry("y", DefaultCommands[2].value)>>))

\* values of the search field typed on the built-in store and on the store
\* of RedirectsFile: the redirections, a key with suggestions, a search
\* command, and a text that is a key of the built-in store only
RedirectInputs == {"v", "w", "y", "y c", "r"}

\* typing into the search field before and after RedirectsFile is imported
\* on a fresh page; the confirm dialog covers the page while it is shown
NextRedirect ==
  \/ \E v \in RedirectInputs : Idle /\ onInput(v)
  \/ \E s \in scripts : \E answer \in Answers(s.q) : ScriptLoaded(s, answer)
  \/ /\ input = "" /\ scripts = {} /\ awaiting = {} /\ settled = {}
     /\ gesture.attempt = NoAttempt
     /\ handleImportFile(RedirectsFile)
     /\ UNCHANGED <<searchVars, suggestVars>>
  \/ ImportLoaded /\ UNCHANGED <<searchVars, suggestVars>>
  \/ ClickOk /\ UNCHANGED <<searchVars, suggestVars>>

SpecRedirect == Init /\ [][NextRedirect]_vars

(***************************************************************************)
(* Properties of the resolver (SpecResolve).                               *)
(***************************************************************************)
\* parseQuery has returned (or thrown) for the text in the field
Resolved == parsed # NotParsed

\* the Command stored under the text in the field is an object without a
\* `command` redirection
PlainCommandAt(k) ==
  /\ MapHas(COMMANDS, k)
  /\ ~MapGet(COMMANDS, k).isNull
  /\ ~Truthy(MapGet(COMMANDS, k).command)

\* C1: for every key k of the store whose Command has no `command`
\* redirection and which is not URL-shaped, parseQuery(k) returns a
\* descriptor whose key is k and whose url is that Command's url.
C1_ExactMatchReturnsKeyAndUrl ==
  (Resolved /\ PlainCommandAt(input) /\ ~isUrl(input)) =>
    /\ parsed.error = "none"
    /\ parsed.key = input
    /\ parsed.url = <<MapGet(COMMANDS, input).url>>

\* every value of the store is a Command object
AllObjects == \A i \in 1..Len(COMMANDS) : ~COMMANDS[i].value.isNull

\* C7: parseQuery returns a descriptor for every input and every store the
\* store operations build out of Command objects, also when `command`
\* redirections refer to each other.
C7_ParseQueryReturns ==
  (Resolved /\ AllObjects) => parsed.error = "none"

\* s starts with http:// or https://, in any letter case
HttpScheme(s) ==
  StartsWith(toLowerCase(s), "http://") \/ StartsWith(toLowerCase(s), "https://")

\* C8: if the trimmed input matches the direct-URL pattern, parseQuery
\* returns it as a direct URL, with https:// put in front when it has no
\* scheme, also when the same string is a key of the store.
C8_DirectUrlFirst ==
  (Resolved /\ isUrl(Trim(input))) =>
    /\ parsed.error = "none"
    /\ ~parsed.isArray
    /\ parsed.url = <<IF HttpScheme(Trim(input)) THEN Trim(input)
                      ELSE "https://" \o Trim(input)>>
    /\ parsed.key = Undef /\ parsed.search = Undef /\ parsed.path = Undef

\* C8's case: a URL-shaped input that is also a key, whose Command's url is
\* another one
C8_Witness ==
  /\ Resolved /\ isUrl(Trim(input))
  /\ PlainCommandAt(Trim(input))
  /\ parsed.url # <<MapGet(COMMANDS, Trim(input)).url>>

\* a full URL with a scheme: letters, "://", a host, no white space
FullUrlWithScheme(s) ==
  LET n == SpanLen(s, Letters)
  IN /\ n >= 1
     /\ StartsWith(From(s, n + 1), "://")
     /\ SpanLen(From(s, n + 4), WordOrDash \cup {"."}) >= 1
     /\ \A i \in 1..Len(s) : CharAt(s, i) \notin Whitespace

SearchUrlOf(c, t) ==
  IF c.searchTemplate.kind = "none" THEN c.url
  ELSE splitUrl(c.url)[1]
         \o ReplacePlaceholder(c.searchTemplate.list[1], encodeURIComponent(t))

\* the input is k, the search delimiter and a non-empty text, is not
\* URL-shaped and not itself a key, and k's Command has no template or one
SearchInputOf(k) ==
  /\ Resolved
  /\ StartsWith(input, k \o CONFIG.commandSearchDelimiter)
  /\ From(input, Len(k) + 2) # ""
  /\ ~isUrl(Trim(input)) /\ ~MapHas(COMMANDS, Trim(input))
  /\ ~MapGet(COMMANDS, k).isNull
  /\ MapGet(COMMANDS, k).searchTemplate.kind \in {"none", "string"}

SearchResultOf(k) ==
  /\ parsed.error = "none"
  /\ parsed.key = k
  /\ parsed.search = Trim(From(input, Len(k) + 2))
  /\ ~parsed.isArray
  /\ parsed.url = <<SearchUrlOf(MapGet(COMMANDS, k), Trim(From(input, Len(k) + 2)))>>

NoWhitespace(k) ==
  k # "" /\ \A i \in 1..Len(k) : CharAt(k, i) \notin Whitespace

Range(seq) == {seq[i] : i \in 1..Len(seq)}

\* the texts onInput may show for the field value v: the store's suggestions
\* for it and the service's answer for its search text
ResultsFor(v) ==
  LET d == parseQuery(v, COMMANDS, CONFIG, StackLimit)
  IN IF d.error # "none" THEN {}
     ELSE Range(StoreSuggestions(COMMANDS, d.query))
            \cup (IF Truthy(d.search)
                  THEN Range(attachSearchPrefix(Answer(d.search), d))
                  ELSE {})

\* C2: whenever the suggestion list is rendered, it holds only results for
\* the text then in the field: results fetched for an earlier text are never
\* rendered while the field holds a later one, in any order of the responses.
C2_OnlyResultsOfCurrentInput ==
  [][rendered' # rendered => Range(rendered') \subseteq ResultsFor(input')]_vars

(***************************************************************************)
(* Properties of shortcut management (Spec).                               *)
(***************************************************************************)
\* C3: a create, or an edit renaming a shortcut onto another key, replaces
\* the existing Command of that key only in answer to the override dialog,
\* whether it was submitted with the button or with Enter in a field.
C3_OverrideOnlyWhenConfirmed ==
  gesture.overridden # {} => gesture.answeredDialog

\* this step handled a create or an edit submitted with a key, name or url
\* that is empty after trimming
SubmitsBlank ==
  /\ gesture'.name \in {"click", "enterInField"}
  /\ gesture'.attempt.op \in {"create", "edit"}
  /\ \E i \in 1..3 : Trim(gesture'.attempt.raw[i]) = ""

\* C6: a create or an edit whose key, name or url is empty after trimming
\* changes neither the store nor the persisted commands document.
C6_BlankFieldsRejected ==
  [][SubmitsBlank =>
       COMMANDS' = COMMANDS /\ localStorage'.commands = localStorage.commands]_vars

(***************************************************************************)
(* Properties of export and import (SpecConfig).                           *)
(***************************************************************************)
\* C4: whenever an import ends in the error dialog, the store, the persisted
\* items and the configuration are what they were before it.
C4_FailedImportChangesNothing ==
  [][(reading # NoFile /\ confirmModal'.message = "importError") =>
       COMMANDS' = COMMANDS /\ localStorage' = localStorage /\ CONFIG' = CONFIG]_vars

\* this step loads the file exportConfig just wrote, the state being the one
\* it was exported from
ImportsOwnExport ==
  /\ reading # NoFile /\ reading' = NoFile
  /\ reading = exported
  /\ exported = ExportOf(COMMANDS, localStorage)
  /\ confirmModal'.display

\* C5: importing the file exportConfig has just produced leaves the store
\* and the configuration as they were, from every reachable state.
C5_ImportOfExportIsIdentity ==
  [][ImportsOwnExport => COMMANDS' = COMMANDS /\ CONFIG' = CONFIG]_vars

(***************************************************************************)
(* Properties of the resolver, continued (SpecResolve).                    *)
(***************************************************************************)
\* the text before the first delimiter d of q is a key and the text after it
\* is not empty
KeyThenRest(q, d) ==
  LET parts == SplitFirst(q, d)
  IN MapHas(COMMANDS, parts[1]) /\ Truthy(parts[2])

\* the input is k, the path delimiter and a non-empty remainder, is not
\* URL-shaped, not itself a key and not a search command
PathInputOf(k) ==
  /\ Resolved
  /\ StartsWith(input, k \o CONFIG.commandPathDelimiter)
  /\ From(input, Len(k) + 2) # ""
  /\ ~isUrl(Trim(input)) /\ ~MapHas(COMMANDS, Trim(input))
  /\ ~KeyThenRest(Trim(input), CONFIG.commandSearchDelimiter)
  /\ ~MapGet(COMMANDS, k).isNull

PathResultOf(k) ==
  /\ parsed.error = "none"
  /\ parsed.key = k
  /\ parsed.path = From(input, Len(k) + 2)
  /\ ~parsed.isArray
  /\ parsed.url = <<splitUrl(MapGet(COMMANDS, k).url)[1] \o "/" \o From(input, Len(k) + 2)>>

PlainKey(k) ==
  NoWhitespace(k) /\ IndexOf(k, CONFIG.commandPathDelimiter) = 0

NothingMatches ==
  /\ Resolved
  /\ ~isUrl(Trim(input)) /\ ~MapHas(COMMANDS, Trim(input))
  /\ ~KeyThenRest(Trim(input), CONFIG.commandSearchDelimiter)
  /\ ~KeyThenRest(Trim(input), CONFIG.commandPathDelimiter)

\* C12: when nothing else matches, parseQuery returns a default search: the
\* search text is the whole trimmed input and the url is the configured
\* default search template with {} replaced by the percent-encoded input.
C12_DefaultSearch ==
  NothingMatches =>
    /\ parsed.error = "none"
    /\ parsed.search = Trim(input) /\ parsed.query = Trim(input)
    /\ parsed.key = Undef /\ parsed.path = Undef
    /\ ~parsed.isArray
    /\ parsed.url = <<ReplacePlaceholder(CONFIG.defaultSearchTemplate,
                                         encodeURIComponent(Trim(input)))>>

\* C12's case: a default search after the engine was changed
C12_Witness ==
  /\ NothingMatches
  /\ CONFIG.defaultSearchEngine = "duckduckgo"
  /\ input = "hello world"
  /\ parsed.url = <<"https://duckduckgo.com/?q=hello%20world">>

\* the trimmed input is both a key, the search delimiter and a non-empty
\* rest, and a key, the path delimiter and a non-empty rest
SearchAndPath ==
  /\ Resolved /\ AllObjects
  /\ KeyThenRest(Trim(input), CONFIG.commandSearchDelimiter)
  /\ KeyThenRest(Trim(input), CONFIG.commandPathDelimiter)

\* the result is the search command of the key before the first search
\* delimiter
SearchWins ==
  LET parts == SplitFirst(Trim(input), CONFIG.commandSearchDelimiter)
  IN /\ parsed.error = "none"
     /\ parsed.key = parts[1]
     /\ parsed.search = Trim(parts[2])
     /\ parsed.splitBy = CONFIG.commandSearchDelimiter
     /\ parsed.path = Undef

\* C13 as claimed: whenever an input is both a search command and a path
\* command, parseQuery returns the search command's result.
C13_SearchBeforePathAlways ==
  SearchAndPath => SearchWins

\* C13 as amended: the same for inputs that are not themselves a key.
C13_SearchBeforePath ==
  (SearchAndPath /\ ~MapHas(COMMANDS, Trim(input))) => SearchWins

\* C13's case: "a b/c" with the keys "a" and "a b"
C13_Witness ==
  /\ SearchAndPath /\ ~MapHas(COMMANDS, Trim(input))
  /\ input = "a b/c"
  /\ parsed.key = "a" /\ parsed.search = "b/c"

\* the trimmed input is a search command of the key k, whose Command holds
\* an array of search templates
ArraySearchOf(k) ==
  /\ Resolved
  /\ ~isUrl(Trim(input)) /\ ~MapHas(COMMANDS, Trim(input))
  /\ KeyThenRest(Trim(input), CONFIG.commandSearchDelimiter)
  /\ SplitFirst(Trim(input), CONFIG.commandSearchDelimiter)[1] = k
  /\ ~MapGet(COMMANDS, k).isNull
  /\ MapGet(COMMANDS, k).searchTemplate.kind = "array"

LastCallWaits == \E c \in awaiting : c.call = autocompleteCallback.call

\* C15: when the request to the autocomplete service fails or answers
\* nothing, the onInput call still completes (and renders the local
\* suggestions): once every request has ended, by an answer or by a failure,
\* the call that fetched last is not left waiting.
C15_OnInputCompletes ==
  scripts = {} => ~LastCallWaits

\* the literal suggestions of the Command the text v matches exactly
LocalFor(v) ==
  LET d == parseQuery(v, COMMANDS, CONFIG, StackLimit)
  IN IF d.error # "none" THEN {}
     ELSE Range(StoreSuggestions(COMMANDS, d.query))

\* in list, no entry outside local comes before an entry of local
LocalFirst(list, local) ==
  \A i, j \in 1..Len(list) : (i < j /\ list[j] \in local) => list[i] \in local

EchoOf(v) ==
  LET d == parseQuery(v, COMMANDS, CONFIG, StackLimit)
  IN IF d.error # "none" \/ ~Truthy(d.search) THEN {}
     ELSE {toLowerCase(attachSearchPrefix(<<d.search>>, d)[1])}

\* C17: whenever the suggestion list is rendered, no fetched suggestion in
\* it equals the raw search text when the two are compared without regard
\* to letter case.
C17_NoEchoOfSearchText ==
  [][rendered' # rendered =>
       \A i \in 1..Len(rendered') :
         rendered'[i] \in LocalFor(input') \/ toLowerCase(rendered'[i]) \notin EchoOf(input')]_vars

(***************************************************************************)
(* Properties of execute (SpecResolve).                                    *)
(***************************************************************************)
\* C18: when execute opens several urls and openLinksInNewTab is false,
\* only the first is opened in the current browsing context and every other
\* one in a new context; when it is true, every url is opened in a new one.
C18_OnlyFirstReusesContext ==
  Len(opened) > 1 =>
    /\ opened[1].target = IF CONFIG.openLinksInNewTab THEN "_blank" ELSE "_self"
    /\ \A i \in 2..Len(opened) : opened[i].target = "_blank"

(***************************************************************************)
(* Properties of persistence.                                              *)
(***************************************************************************)
\* a commands document has been written to localStorage
DocumentWritten == localStorage.commands.kind # "absent"

\* C19: once a commands document has been written, in every quiescent
\* state (no dialog open, no file being read) the persisted document equals
\* the serialization of the in-memory store.
C19_StoreEqualsDocument ==
  (Idle /\ DocumentWritten) => localStorage.commands = saveCommands(COMMANDS)

\* the last gesture confirmed the reset question, and resetSettings has run
\* to its end
ResetConfirmed ==
  /\ gesture.attempt.op = "reset"
  /\ gesture.name \in {"clickOk", "enterOnDialog"}

\* C20: after a confirmed reset the store and its persisted document equal
\* the set a first run starts with: the same keys in the same order, with
\* the same name, url, searchTemplate and suggestions for every key.
C20_ResetRestoresFirstRun ==
  ResetConfirmed =>
    /\ COMMANDS = DefaultCommands
    /\ localStorage.commands = saveCommands(DefaultCommands)

(***************************************************************************)
(* Properties of loadCommands (SpecLoad).                                  *)
(***************************************************************************)
\* the page has just loaded and nothing has been done on it since
JustLoaded == gesture = Gesture("load", NoAttempt)

\* C21: when the page has loaded over a commands entry that JSON.parse
\* rejects, the load has run to its end (the page is quiescent), the store
\* equals the built-in default set, as it does when nothing is stored, and
\* the entry is left as it was.
C21_UnparseableMeansDefaults ==
  (JustLoaded /\ localStorage.commands \in {UnparseableDocument, NoDocument}) =>
    /\ Idle
    /\ COMMANDS = DefaultCommands

C21_Witness ==
  /\ JustLoaded
  /\ localStorage.commands = UnparseableDocument
  /\ COMMANDS = DefaultCommands

\* this step loads the page over the document the store was saved to
ReloadsSaved ==
  /\ gesture' = Gesture("load", NoAttempt)
  /\ localStorage.commands = saveCommands(COMMANDS)

\* C24: a page load over the document the store was saved to gives a store
\* with exactly the saved mapping from keys to Commands: no entry added,
\* removed or altered, whatever keys the user's own shortcuts have, the
\* empty store included.
C24_LoadRestoresSavedStore ==
  [][ReloadsSaved =>
       {COMMANDS'[i] : i \in 1..Len(COMMANDS')} = {COMMANDS[i] : i \in 1..Len(COMMANDS)}]_vars

(***************************************************************************)
(* Properties of the resolver: the origin (SpecResolve).                   *)
(***************************************************************************)
\* scheme://host of a url that has a scheme, as written: everything before
\* the path, the query and the fragment, a port included
LiteralOrigin(url) ==
  LET n == SpanLen(url, Letters)
      after == From(url, n + 4)
      ae == FirstIn(after, {"/", "?", "#"}, 1)
  IN SubSeq(url, 1, n + 3) \o SubSeq(after, 1, ae - 1)

\* C25: a path command on a Command whose url has a scheme resolves to the
\* url's scheme://host as written, a port included, followed by "/" and the
\* path.
C25_OriginKeepsPort ==
  \A k \in KeysOf(COMMANDS) :
    (/\ PathInputOf(k) /\ PlainKey(k) /\ TrimEnd(input) = input
     /\ hasProtocol(MapGet(COMMANDS, k).url)) =>
      parsed.url = <<LiteralOrigin(MapGet(COMMANDS, k).url) \o "/"
                       \o From(input, Len(k) + 2)>>

(***************************************************************************)
(* Properties of the confirm dialog (SpecAsk).                             *)
(***************************************************************************)
\* this step puts a question to the user
Asks == ~confirmModal.display /\ confirmModal'.display /\ confirmModal'.pending.op # "info"

\* this step is the user's Cancel to a question
Cancels == confirmModal.display /\ gesture'.name = "clickCancel"

\* C26: an operation that asks and is answered with Cancel leaves the store,
\* the persisted items and the configuration as they were: neither the
\* step that asks nor the step that cancels changes them.
C26_CancelChangesNothing ==
  [][(Asks \/ Cancels) =>
       COMMANDS' = COMMANDS /\ localStorage' = localStorage /\ CONFIG' = CONFIG]_vars

\* the override of "y" was asked and cancelled on a store the user had added
\* "q" to: "y" is still the built-in one
C26_Witness ==
  /\ gesture.name = "clickCancel"
  /\ gesture.attempt.op = "create" /\ gesture.attempt.key = "y"
  /\ ~confirmModal.display
  /\ MapHas(COMMANDS, "q")
  /\ MapGet(COMMANDS, "y") = DefaultCommands[2].value

(***************************************************************************)
(* Properties of the configuration (SpecConfig).                           *)
(***************************************************************************)
\* C27: in every reachable state CONFIG.defaultSearchEngine is a key of
\* CONFIG.searchEngineTemplates and CONFIG.defaultSearchTemplate is the
\* template stored under that key.
C27_EngineHasTemplate ==
  /\ CONFIG.defaultSearchEngine \in DOMAIN searchEngineTemplates
  /\ CONFIG.defaultSearchTemplate = TemplateOf(CONFIG.defaultSearchEngine)
  /\ CONFIG.defaultSearchTemplate # Undef

\* loadCommands fails on the document: JSON.parse, Object.entries or the
\* loop body throws, and the catch logs it
LoadFails(doc) ==
  \/ doc.kind \in {"unparseable", "null"}
  \/ /\ doc.kind = "object"
     /\ \E i \in 1..Len(doc.entries) : LoadThrowsAt(doc.entries[i])

\* C28: when the page has loaded over a document loadCommands fails on, the
\* store is what it was before the call, the built-in set the page's script
\* starts with; it is neither empty nor partly filled from the document.
C28_FailedLoadLeavesStore ==
  (JustLoaded /\ LoadFails(localStorage.commands)) => COMMANDS = DefaultCommands

(***************************************************************************)
(* Properties of create and edit, continued (Spec).                        *)
(***************************************************************************)
\* the last gesture made a create or an edit run to its end: the fields
\* passed validation and no override question is open or was cancelled
Applied ==
  /\ gesture.attempt.op \in {"create", "edit"}
  /\ gesture.name \in {"click", "enterInField", "clickOk", "enterOnDialog"}
  /\ ~confirmModal.display
  /\ IF gesture.attempt.op = "create"
     THEN \A i \in 1..3 : gesture.attempt.raw[i] # ""
     ELSE \A i \in 1..3 : Trim(gesture.attempt.raw[i]) # ""

\* the store after the request just applied is submitted and confirmed once
\* more: the item now rendered for its key holds the key, name and url that
\* were stored (the url field shows the url with its prefix)
AppliedAgain ==
  LET p == gesture.attempt
      url == WithProtocol(Trim(p.url))
  IN IF p.op = "create"
     THEN CreateApply(COMMANDS, [p EXCEPT !.url = url])
     ELSE EditApply(COMMANDS, [p EXCEPT !.oldKey = p.key,
                                         !.value = MapGet(COMMANDS, p.key),
                                         !.url = url])

\* C22: once a create or an edit has been applied, applying the same key,
\* name and url again leaves the store and the persisted document as they
\* are: same entries, same order, the url with one https:// prefix.
C22_SecondApplyChangesNothing ==
  Applied =>
    /\ AppliedAgain = COMMANDS
    /\ saveCommands(AppliedAgain) = localStorage.commands

\* the shortcut "q" has been created over the "q" made before
C22_Witness ==
  /\ Applied
  /\ gesture.attempt.op = "create" /\ gesture.attempt.key = "q"
  /\ gesture.overridden = {"q"}
  /\ MapGet(COMMANDS, "q") = Cmd("Q", "https://q.io", NoTemplate, <<>>)

(***************************************************************************)
(* Properties of the settings (SpecSettings).                              *)
(***************************************************************************)
\* the gesture handled last selected the search engine v
JustSelectedEngine(v) ==
  gesture.name = "change" /\ gesture.attempt = [op |-> "searchEngine", value |-> v]

\* the gesture handled last selected the tab behaviour v
JustSelectedTab(v) ==
  gesture.name = "change" /\ gesture.attempt = [op |-> "tabBehavior", value |-> v]

\* scheme://hostname of the template of every engine but v
OtherOrigins(v) ==
  {splitUrl(searchEngineTemplates[e])[1] : e \in DOMAIN searchEngineTemplates \ {v}}

\* C23: the parseQuery or execute that follows a change of the search
\* engine resolves a default search against the template of the engine just
\* selected, and the execute that follows a change of the tab behaviour
\* opens its urls as the behaviour just selected says, with no page load in
\* between.
C23_SettingsTakeEffectAtOnce ==
  [][/\ \A v \in DOMAIN searchEngineTemplates :
          JustSelectedEngine(v) =>
            /\ (parsed' # parsed /\ parsed'.branch = 5) =>
                 parsed'.url = <<ReplacePlaceholder(searchEngineTemplates[v],
                                                    encodeURIComponent(Trim(input')))>>
            /\ opened' # opened =>
                 \A i \in 1..Len(opened') : \A o \in OtherOrigins(v) :
                   ~StartsWith(opened'[i].url, o)
     /\ \A v \in {"new", "current"} :
          (JustSelectedTab(v) /\ opened' # opened) =>
            \A i \in 1..Len(opened') :
              opened'[i].target = IF v = "new" THEN "_blank" ELSE "_self"]_vars

\* a default search executed right after the tab behaviour was set to
\* "current", the engine having been set to duckduckgo before
C23_Witness ==
  /\ JustSelectedTab("current")
  /\ localStorage.searchEngine = "duckduckgo"
  /\ opened = <<[url |-> "https://duckduckgo.com/?q=hello%20world", target |-> "_self"]>>

(***************************************************************************)
(* Properties of the suggestion sources (SpecRedirect).                    *)
(***************************************************************************)
\* the literal suggestions onInput reads for the text v
LocalListOf(v) ==
  LET d == parseQuery(v, COMMANDS, CONFIG, StackLimit)
  IN IF d.error # "none" THEN <<>> ELSE StoreSuggestions(COMMANDS, d.query)

\* C29: onInput issues no autocomplete request for a text whose resolved
\* query has literal suggestions, and every call of onInput that awaits an
\* answer of the service holds an empty local list, redirections included.
C29_SourcesNeverMixed ==
  [][/\ (input' # input /\ LocalListOf(input') # <<>>) => scripts' = scripts
     /\ \A c \in awaiting' : c.suggestions = <<>>]_vars

\* a request is under way for the redirection "v" (a search on "y"), whose
\* own Command has suggestions
C29_Witness ==
  /\ input = "v"
  /\ MapHas(COMMANDS, "v")
  /\ MapGet(COMMANDS, "v").suggestions # <<>>
  /\ \E c \in awaiting : c.oq.search = "cats" /\ c.suggestions = <<>>
  /\ \E s \in scripts : s.q = "cats"

(***************************************************************************)
(* Properties of reset, continued (SpecConfig).                            *)
(***************************************************************************)
\* the configuration CONFIG.init() leaves on a fresh install
FirstRunConfig == ConfigInit(EmptyStorage)

\* C30: after a confirmed reset openLinksInNewTab, defaultSearchEngine and
\* defaultSearchTemplate have the values of a fresh install with empty
\* localStorage.
C30_ResetRestoresFirstRunConfig ==
  ResetConfirmed =>
    /\ CONFIG.openLinksInNewTab = FirstRunConfig.openLinksInNewTab
    /\ CONFIG.defaultSearchEngine = FirstRunConfig.defaultSearchEngine
    /\ CONFIG.defaultSearchTemplate = FirstRunConfig.defaultSearchTemplate

====
